---------------------------- MODULE Spec2Model ----------------------------
(***************************************************************************)
(* Healthcare voice agent: the request boundary (api.py) and the pipeline  *)
(* orchestrator with its three adapters (voice_agent.py).                  *)
(*                                                                         *)
(* Python values are modelled as follows.  None is the record None.  Text  *)
(* that the code only passes along (transcripts, language names, error     *)
(* messages) is a TLA+ string.  Text that the code inspects character by   *)
(* character (upload filenames, the text-generation reply of               *)
(* generate_response) is a sequence of one-character strings.  The reply   *)
(* that classify_intent hands to json.loads is a sequence of JSON tokens.  *)
(* A character that a TLA+ string literal cannot hold is written as its    *)
(* code point, so that the element "U+000B" of a text is the one character *)
(* chr(0x0B).  Uploaded bytes and file contents are sequences of bytes.    *)
(***************************************************************************)
EXTENDS Integers, Sequences, FiniteSets, TLC

VARIABLES
    environ,   \* os.environ restricted to OPENAI_API_KEY: variable name -> value
    svc,       \* position of the module-level start-up code
    agent,     \* the global VoiceAIAgent: its whisper_model and openai_client
    files,     \* the temporary directory: existing file name -> content
    req,       \* per POST /process-audio/ request: the handler's local state
    health     \* the last body returned by GET /health, None before the first

vars == <<environ, svc, agent, files, req, health>>

---------------------------------------------------------------------------
(* Bounds *)

\* Number of POST /process-audio/ requests that may be handled concurrently.
NumRequests == 2

\* Longest run of leading whitespace put in front of a text-generation reply.
MaxPad == 2

AllRequests == 1..NumRequests

\* The single request of the sequential specifications.
SoloRequests == {1}

---------------------------------------------------------------------------
(* Python values *)

None == [py |-> "None"]

\* A local variable that no assignment has bound yet.
Unbound == [py |-> "unbound"]

\* A value held where None may also be held.
Some(v) == [py |-> "value", v |-> v]

\* The exception-to-body conversion of the handler: {"error": str(e)}.
ErrorBody(msg) == [error |-> msg]

---------------------------------------------------------------------------
(* Character-level text operations (str.strip, str.lower, str.startswith,  *)
(* slicing) used by generate_response and os.path.splitext.                *)

\* The characters str.strip() removes: every c with c.isspace().
Whitespace ==
    { "\t", "\n", "U+000B", "\f", "\r", "U+001C", "U+001D", "U+001E", "U+001F", " ",
      "U+0085", "U+00A0", "U+1680", "U+2000", "U+2001", "U+2002", "U+2003", "U+2004",
      "U+2005", "U+2006", "U+2007", "U+2008", "U+2009", "U+200A", "U+2028", "U+2029",
      "U+202F", "U+205F", "U+3000" }

IsSpace(c) == c \in Whitespace

RECURSIVE LStrip(_)
LStrip(s) ==
    IF s = <<>> THEN s
    ELSE IF IsSpace(Head(s)) THEN LStrip(Tail(s)) ELSE s

RECURSIVE RStrip(_)
RStrip(s) ==
    IF s = <<>> THEN s
    ELSE IF IsSpace(s[Len(s)]) THEN RStrip(SubSeq(s, 1, Len(s) - 1)) ELSE s

\* str.strip()
Strip(s) == RStrip(LStrip(s))

UpperToLower ==
    [c \in {"A","B","C","D","E","F","G","H","I","J","K","L","M",
            "N","O","P","Q","R","S","T","U","V","W","X","Y","Z"} |->
        CASE c = "A" -> "a" [] c = "B" -> "b" [] c = "C" -> "c" [] c = "D" -> "d"
          [] c = "E" -> "e" [] c = "F" -> "f" [] c = "G" -> "g" [] c = "H" -> "h"
          [] c = "I" -> "i" [] c = "J" -> "j" [] c = "K" -> "k" [] c = "L" -> "l"
          [] c = "M" -> "m" [] c = "N" -> "n" [] c = "O" -> "o" [] c = "P" -> "p"
          [] c = "Q" -> "q" [] c = "R" -> "r" [] c = "S" -> "s" [] c = "T" -> "t"
          [] c = "U" -> "u" [] c = "V" -> "v" [] c = "W" -> "w" [] c = "X" -> "x"
          [] c = "Y" -> "y" [] c = "Z" -> "z"]

\* The lowercase of a character of the modelled texts (ASCII and whitespace).
LowerChar(c) == IF c \in DOMAIN UpperToLower THEN UpperToLower[c] ELSE c

\* str.lower()
Lower(s) == [i \in 1..Len(s) |-> LowerChar(s[i])]

\* str.startswith(p)
StartsWith(s, p) == Len(s) >= Len(p) /\ SubSeq(s, 1, Len(p)) = p

\* s[n:]
SliceFrom(s, n) == IF n >= Len(s) THEN <<>> ELSE SubSeq(s, n + 1, Len(s))

\* The literal "response:" of generate_response.
ResponsePrefix == <<"r","e","s","p","o","n","s","e",":">>

\* The slice index 9 of generate_response.
PrefixSlice == 9

\* A mis-sliced variant: one character short of the prefix.
PostProcessShortSlice(content) ==
    LET response_text == Strip(content)
    IN  IF StartsWith(Lower(response_text), ResponsePrefix)
        THEN Strip(SliceFrom(response_text, PrefixSlice - 1))
        ELSE response_text

\* generate_response, the post-processing of the model's reply.
PostProcess(content) ==
    LET response_text == Strip(content)
    IN  IF StartsWith(Lower(response_text), ResponsePrefix)
        THEN Strip(SliceFrom(response_text, PrefixSlice))
        ELSE response_text

---------------------------------------------------------------------------
(* Upload filenames and os.path.splitext *)

\* Largest index of character c in s, 0 when absent (str.rfind, 1-based).
RFind(s, c) ==
    LET hits == {i \in 1..Len(s) : s[i] = c}
    IN  IF hits = {} THEN 0 ELSE CHOOSE i \in hits : \A j \in hits : j <= i

\* os.path.splitext(p)[1]: the extension starts at the last dot of the last
\* path component, unless only dots precede it in that component.
SplitextExt(p) ==
    LET sepIndex == RFind(p, "/")
        dotIndex == RFind(p, ".")
    IN  IF dotIndex > sepIndex
           /\ \E i \in (sepIndex + 1)..(dotIndex - 1) : p[i] # "."
        THEN SubSeq(p, dotIndex, Len(p))
        ELSE <<>>

\* UploadFile.filename values: None (a part without a filename) or a name.
Filenames ==
    { None,
      [name |-> <<"a", ".", "w", "a", "v">>],
      [name |-> <<"c", "l", "i", "p">>],
      [name |-> <<".", "m", "p", "3">>] }

\* Uploaded bytes: a file that is no audio, a silent clip, an English and a
\* Dutch utterance.
NotAudio == <<"%", "P">>
Silence  == <<"S", "0">>
SpeechEn == <<"S", "e">>
SpeechNl == <<"S", "n">>

Contents == {NotAudio, Silence, SpeechEn, SpeechNl}

Uploads == [filename : Filenames, content : Contents]

\* The uploads of the concurrent specification: two utterances that
\* transcribe differently.
LeanUploads ==
    [filename : {[name |-> <<"a", ".", "w", "a", "v">>]},
     content : {SpeechEn, SpeechNl}]

---------------------------------------------------------------------------
(* Temporary files *)

NoName == [stem |-> 0, suffix |-> <<>>]

\* Candidate random stems of tempfile: one per request is always enough.
Stems == 1..NumRequests

\* A naming scheme that ignores what already exists in the directory.
FreshNamesAnyStem(dir, suffix) ==
    {[stem |-> s, suffix |-> suffix] : s \in Stems}

\* tempfile.NamedTemporaryFile: a name that no existing file has (O_EXCL).
FreshNames(dir, suffix) ==
    {n \in {[stem |-> s, suffix |-> suffix] : s \in Stems} : n \notin DOMAIN dir}

NoFiles == [n \in {} |-> <<>>]

\* What a write that fails may leave in the file: any prefix of the content.
\* write() fills the buffer and flush() raises with part of it on disk; the
\* close at the end of the with block flushes the rest again, which may fail
\* too or, the cause being gone, put the whole content in the file.
PartialWrites(content) == {SubSeq(content, 1, k) : k \in 0..Len(content)}

\* Create or truncate-and-write file n with content c.
PutFile(dir, n, c) == [m \in DOMAIN dir \cup {n} |-> IF m = n THEN c ELSE dir[m]]

\* os.unlink of an existing file.
RemoveFile(dir, n) == [m \in DOMAIN dir \ {n} |-> dir[m]]

---------------------------------------------------------------------------
(* The speech model and the language detector *)

\* whisper_model.transcribe(path)["text"]; defined on decodable audio only.
WhisperText ==
    [c \in {Silence, SpeechEn, SpeechNl} |->
        CASE c = Silence  -> ""
          [] c = SpeechEn -> "I need to schedule a dental cleaning"
          [] c = SpeechNl -> "Ik wil graag een afspraak maken"]

\* langdetect.detect(text); raises on text without features (here: "").
DetectCode ==
    [t \in {"I need to schedule a dental cleaning",
            "Ik wil graag een afspraak maken"} |->
        IF t = "I need to schedule a dental cleaning" THEN "en" ELSE "nl"]

\* self.language_map
language_map ==
    [c \in {"en", "es", "ca", "fr", "de", "it", "pt"} |->
        CASE c = "en" -> "English" [] c = "es" -> "Spanish"
          [] c = "ca" -> "Catalan" [] c = "fr" -> "French"
          [] c = "de" -> "German"  [] c = "it" -> "Italian"
          [] c = "pt" -> "Portuguese"]

\* self.language_map.get(detected_lang, detected_lang)
LanguageName(code) ==
    IF code \in DOMAIN language_map THEN language_map[code] ELSE code

\* transcribe_audio on a file with the given content: the returned dict, or
\* raised when whisper cannot decode it or detect fails on the transcript.
TranscribeOutcome(content) ==
    IF content \notin DOMAIN WhisperText
    THEN [raised |-> TRUE, value |-> None]
    ELSE LET transcript == WhisperText[content]
         IN  IF transcript \notin DOMAIN DetectCode
             THEN [raised |-> TRUE, value |-> None]
             ELSE [raised |-> FALSE,
                   value  |-> [transcript |-> transcript,
                               language   |-> LanguageName(DetectCode[transcript])]]

---------------------------------------------------------------------------
(* json.loads on the classifier's reply *)

Tok(t, v) == [t |-> t, v |-> v]
LBrace == Tok("{", "")
RBrace == Tok("}", "")
Colon  == Tok(":", "")
Comma  == Tok(",", "")
Str(v) == Tok("string", v)
Num(v) == Tok("number", v)
Raw(v) == Tok("raw", v)

\* Replies of the chat model to the classification prompt.
ReplyFull ==
    << LBrace, Str("intent"), Colon, Str("appointment_scheduling"), Comma,
       Str("confidence_score"), Colon, Num("0.92"), RBrace >>
ReplyOffLabel ==
    << LBrace, Str("confidence_score"), Colon, Num("1.7"), Comma,
       Str("intent"), Colon, Str("complaint"), RBrace >>
ReplyNoConfidence ==
    << LBrace, Str("intent"), Colon, Str("billing_inquiry"), RBrace >>
ReplyNoIntent ==
    << LBrace, Str("confidence_score"), Colon, Num("0.8"), RBrace >>
ReplyEmptyObject == << LBrace, RBrace >>
ReplyBareString == << Str("prescription_refill") >>
ReplyProse == << Raw("Intent:"), Raw("billing_inquiry") >>
ReplyPrefaced ==
    << Raw("Here is the JSON:"), LBrace, Str("intent"), Colon, Str("general_inquiry"),
       Comma, Str("confidence_score"), Colon, Num("0.9"), RBrace >>
ReplyTruncated ==
    << LBrace, Str("intent"), Colon, Str("billing_inquiry"), Comma >>

ClassifierReplies ==
    { ReplyFull, ReplyOffLabel, ReplyNoConfidence, ReplyNoIntent, ReplyEmptyObject,
      ReplyBareString, ReplyProse, ReplyPrefaced, ReplyTruncated }

LeanClassifierReplies == { ReplyFull }

IsScalarTok(k) == k.t \in {"string", "number"}

JsonScalar(k) == [json |-> k.t, v |-> k.v]

JsonObject(members) == [json |-> "object", members |-> members]

JsonError == [raised |-> TRUE, value |-> None]

\* The members of an object, left to right; a repeated key keeps the last value.
RECURSIVE ParseMembers(_, _)
ParseMembers(toks, acc) ==
    IF Len(toks) >= 3 /\ toks[1].t = "string" /\ toks[2] = Colon /\ IsScalarTok(toks[3])
    THEN LET key  == toks[1].v
             acc2 == [k \in DOMAIN acc \cup {key} |->
                         IF k = key THEN JsonScalar(toks[3]) ELSE acc[k]]
         IN  IF Len(toks) = 3
             THEN [raised |-> FALSE, value |-> JsonObject(acc2)]
             ELSE IF toks[4] = Comma /\ Len(toks) > 4
                  THEN ParseMembers(SubSeq(toks, 5, Len(toks)), acc2)
                  ELSE JsonError
    ELSE JsonError

\* json.loads for scalars and flat objects (all the replies above are either
\* one of these or not JSON at all).
JsonLoads(toks) ==
    IF Len(toks) = 1 /\ IsScalarTok(toks[1])
    THEN [raised |-> FALSE, value |-> JsonScalar(toks[1])]
    ELSE IF Len(toks) >= 2 /\ toks[1] = LBrace /\ toks[Len(toks)] = RBrace
         THEN IF Len(toks) = 2
              THEN [raised |-> FALSE, value |-> JsonObject([k \in {} |-> None])]
              ELSE ParseMembers(SubSeq(toks, 2, Len(toks) - 1), [k \in {} |-> None])
         ELSE JsonError

\* result[key] on the value json.loads returned: KeyError on a dict without
\* the key, TypeError on anything that is not a dict.
HasKey(value, key) == value.json = "object" /\ key \in DOMAIN value.members

GetKey(value, key) == value.members[key]

---------------------------------------------------------------------------
(* Start-up: voice_agent.py is imported (load_dotenv), then api.py builds  *)
(* the global agent.                                                       *)

KeyVar == "OPENAI_API_KEY"

NoEnv == [k \in {} |-> ""]

SetEnv(value) == [k \in {KeyVar} |-> value]

\* Credentials: one the text-generation service accepts, one it rejects.
LiveKey == "sk-live"
RevokedKey == "sk-revoked"

\* The variable in the process environment, and in the .env file, if any.
EnvChoices == {NoEnv, SetEnv(""), SetEnv(LiveKey), SetEnv(RevokedKey)}

\* load_dotenv(): variables of the .env file are added, never overridden.
LoadDotenvInto(env, dotfile) ==
    [k \in DOMAIN env \cup DOMAIN dotfile |-> IF k \in DOMAIN env THEN env[k] ELSE dotfile[k]]

\* A check that only rejects an unset variable (api_key is None).
KeyMissingOnlyUnset(env) == KeyVar \notin DOMAIN env

\* not os.getenv("OPENAI_API_KEY")
KeyMissing(env) == KeyVar \notin DOMAIN env \/ env[KeyVar] = ""

NoAgent == [whisper_model |-> None, openai_client |-> None]

\* A probing health check that reports the state of the credential.
HealthBodyProbing(env, requests) ==
    IF env[KeyVar] = LiveKey THEN [status |-> "healthy"] ELSE [status |-> "unhealthy"]

\* health_check: the body of GET /health.
HealthBody(env, requests) == [status |-> "healthy"]

\* What a call of the chat-completions API may do with the agent's key.
ApiOutcomes(client) ==
    IF client = Some(LiveKey) THEN {"reply", "error"} ELSE {"error"}

---------------------------------------------------------------------------
(* Per-request state of the handler and of the orchestrator it calls *)

IdleRequest ==
    [ pc     |-> "idle",        \* handler position
      upload |-> [filename |-> None, content |-> <<>>],
      tmp    |-> NoName,        \* temp_file.name
      orch   |-> "not-entered", \* agent.process_audio: running / failed / complete
      calls  |-> <<>>,          \* adapters invoked, in order
      log    |-> <<>>,          \* logger.error lines of this request
      stage  |-> [transcribe |-> "not-called", classify |-> "not-called",
                  generate |-> "not-called"],  \* per adapter: returned / raised
      transcription_result |-> None,
      cls_reply     |-> None,   \* the chat model's classification reply
      cls_arg       |-> None,   \* transcript classify_intent was called with
      intent_result |-> None,
      gen_args      |-> None,   \* arguments generate_response was called with
      gen_reply     |-> None,   \* the chat model's response reply
      response      |-> None,
      result |-> Unbound,       \* value returned by agent.process_audio
      body   |-> None,          \* value returned by the handler
      escaped |-> "" ]          \* exception that left the handler uncaught

\* The state of the pipeline of section 4.4, read off the orchestrator's position.
PipelineState(q) ==
    CASE q.orch = "failed"   -> "Failed"
      [] q.orch = "complete" -> "Complete"
      [] q.orch = "running" /\ q.pc = "transcribe" -> "Received"
      [] q.orch = "running" /\ q.pc = "classify"   -> "Transcribed"
      [] q.orch = "running" /\ q.pc = "generate"   -> "Classified"
      [] q.orch = "running" /\ q.pc = "assemble"   -> "Responded"
      [] OTHER -> "NotStarted"

\* The handler's except clause: return {"error": str(e)}.
HandlerExcept(q, msg) == [q EXCEPT !.pc = "done", !.body = ErrorBody(msg)]

\* An exception that `except Exception` does not catch leaves the handler.
HandlerEscape(q, exc) == [q EXCEPT !.pc = "done", !.escaped = exc]

\* An orchestrator that logs and re-raises, as its adapters do.
OrchestratorReraise(q) ==
    HandlerExcept([q EXCEPT !.log = Append(@, "Error in processing audio"),
                            !.orch = "failed"],
                  "stage failure")

\* process_audio's except clause: log, then fall off the end (return None).
OrchestratorExcept(q) ==
    [q EXCEPT !.log = Append(@, "Error in processing audio"),
              !.orch = "failed",
              !.result = None,
              !.pc = "unlink"]

\* An adapter that calls its service a second time before giving up.
AdapterExceptRetryOnce(q, line) ==
    LET last  == q.calls[Len(q.calls)]
        tries == Cardinality({i \in DOMAIN q.calls : q.calls[i] = last})
    IN  IF tries < 2
        THEN [q EXCEPT !.log = Append(@, line)]
        ELSE OrchestratorExcept([q EXCEPT !.log = Append(@, line)])

\* An adapter's except clause: log, then re-raise into the orchestrator.
AdapterExcept(q, line) == OrchestratorExcept([q EXCEPT !.log = Append(@, line)])

\* classify_intent on the model's reply: json.loads, returned as it is.
ClassifyIntent(reply) == JsonLoads(reply)

\* The dict process_audio returns.
ProcessingResult(transcription_result, intent_result, response) ==
    [ transcript |-> transcription_result.transcript,
      language   |-> transcription_result.language,
      intent     |-> GetKey(intent_result, "intent"),
      response   |-> response,
      confidence_score |-> GetKey(intent_result, "confidence_score") ]

---------------------------------------------------------------------------
(* Replies of the chat model to the response prompt *)

PadChars == {" ", "\n", "U+000B"}

\* All runs of pad characters of length at most n.
RECURSIVE Pads(_)
Pads(n) ==
    IF n = 0 THEN {<<>>}
    ELSE Pads(n - 1) \cup {<<c>> \o p : c \in PadChars, p \in {x \in Pads(n - 1) : Len(x) = n - 1}}

ReplyHeads ==
    { <<>>,
      <<"r","e","s","p","o","n","s","e",":">>,
      <<"R","e","s","p","o","n","s","e",":">>,
      <<"R","E","S","P","O","N","S","E",":">>,
      <<"r","E","s","P","o","N","s","E",":">>,
      <<"R","e","s","p","o","n","s","e">>,
      <<"R","e","p","l","y",":">>,
      <<"R","e","s","p","o","n","s","e","s",":">> }

ReplyGaps == { <<>>, <<" ">>, <<"\t", " ">>, <<"U+00A0">> }

ReplyTexts ==
    { <<>>,
      <<"O","k">>,
      <<"Y","o","u","r"," ","a","p","p","o","i","n","t","m","e","n","t"," ",
        "i","s"," ","c","o","n","f","i","r","m","e","d",".">>,
      <<"R","e","s","p","o","n","s","e",":"," ","O","k">> }

ReplyTails == { <<>>, <<"\n">>, <<" ", "\r">>, <<"U+001C", "U+2003">> }

\* message.content values of the response-generation call.
GeneratorReplies ==
    { lead \o head \o gap \o text \o tail :
        lead \in Pads(MaxPad), head \in ReplyHeads, gap \in ReplyGaps,
        text \in ReplyTexts, tail \in ReplyTails }

LeanGeneratorReplies ==
    { <<"O","k">>,
      <<" ","R","e","s","p","o","n","s","e",":"," ","O","k","\n">> }

\* The one upload of the response-generation specification.
GenUploads ==
    [filename : {[name |-> <<"a", ".", "w", "a", "v">>]}, content : {SpeechEn}]

---------------------------------------------------------------------------
(* Initial state: the interpreter is about to import voice_agent.py *)

Init ==
    /\ environ \in EnvChoices
    /\ svc = "import"
    /\ agent = NoAgent
    /\ files = NoFiles
    /\ req = [r \in AllRequests |-> IdleRequest]
    /\ health = None

---------------------------------------------------------------------------
(* Start-up steps *)

\* voice_agent.py line 10: load_dotenv()
LoadDotenv ==
    /\ svc = "import"
    /\ \E dotfile \in EnvChoices : environ' = LoadDotenvInto(environ, dotfile)
    /\ svc' = "construct"
    /\ UNCHANGED <<agent, files, req, health>>

\* VoiceAIAgent.__init__, the credential check
CheckKey ==
    /\ svc = "construct"
    /\ svc' = IF KeyMissing(environ) THEN "crashed" ELSE "load_model"
    /\ UNCHANGED <<environ, agent, files, req, health>>

\* VoiceAIAgent.__init__, whisper.load_model("base"): loads, or raises
LoadModel ==
    /\ svc = "load_model"
    /\ \E loaded \in BOOLEAN :
          IF loaded
          THEN /\ agent' = [agent EXCEPT !.whisper_model = Some("base")]
               /\ svc' = "make_client"
          ELSE /\ agent' = agent
               /\ svc' = "crashed"
    /\ UNCHANGED <<environ, files, req, health>>

\* VoiceAIAgent.__init__, OpenAI(api_key=api_key) and the two tables;
\* api.py then defines its routes and the server starts.
MakeClient ==
    /\ svc = "make_client"
    /\ agent' = [agent EXCEPT !.openai_client = Some(environ[KeyVar])]
    /\ svc' = "serving"
    /\ UNCHANGED <<environ, files, req, health>>

\* GET /health
HealthCheck ==
    /\ svc = "serving"
    /\ health' = HealthBody(environ, req)
    /\ UNCHANGED <<environ, svc, agent, files, req>>

---------------------------------------------------------------------------
(* POST /process-audio/: the handler, one step per statement *)

\* api.py line 42: splitext of the filename, then NamedTemporaryFile, which
\* creates the file or raises an OSError (no descriptor left, no directory,
\* no unused name); nothing is created then
Open(r, uploads) ==
    /\ svc = "serving"
    /\ req[r].pc = "idle"
    /\ \E u \in uploads :
          LET q == [req[r] EXCEPT !.upload = u]
          IN  IF u.filename = None
              THEN /\ req' = [req EXCEPT ![r] = HandlerExcept(q, "TypeError")]
                   /\ files' = files
              ELSE LET names == FreshNames(files, SplitextExt(u.filename.name))
                   IN  \E created \in BOOLEAN :
                          IF created /\ names # {}
                          THEN \E n \in names :
                                  /\ files' = PutFile(files, n, <<>>)
                                  /\ req' = [req EXCEPT ![r] =
                                                [q EXCEPT !.pc = "read", !.tmp = n]]
                          ELSE /\ req' = [req EXCEPT ![r] = HandlerExcept(q, "OSError")]
                               /\ files' = files
    /\ UNCHANGED <<environ, svc, agent, health>>

\* api.py line 43: await audio_file.read(): returns the bytes, raises an
\* Exception, or the task is cancelled at the await (CancelledError is a
\* BaseException, which the handler's except clause lets through)
Read(r) ==
    /\ req[r].pc = "read"
    /\ \E outcome \in {"bytes", "Exception", "CancelledError"} :
          req' = [req EXCEPT ![r] =
                     CASE outcome = "bytes" -> [@ EXCEPT !.pc = "write"]
                       [] outcome = "Exception" -> HandlerExcept(@, "upload read failed")
                       [] outcome = "CancelledError" -> HandlerEscape(@, "CancelledError")]
    /\ UNCHANGED <<environ, svc, agent, files, health>>

\* api.py lines 44-45: temp_file.write(content); temp_file.flush(); a failure
\* leaves whatever part of the content has reached the file by the time the
\* with block has closed it
Write(r) ==
    /\ req[r].pc = "write"
    /\ \E ok \in BOOLEAN :
          IF ok
          THEN /\ files' = PutFile(files, req[r].tmp, req[r].upload.content)
               /\ req' = [req EXCEPT ![r] = [@ EXCEPT !.pc = "transcribe", !.orch = "running"]]
          ELSE /\ \E part \in PartialWrites(req[r].upload.content) :
                     files' = PutFile(files, req[r].tmp, part)
               /\ req' = [req EXCEPT ![r] = HandlerExcept(@, "write failed")]
    /\ UNCHANGED <<environ, svc, agent, health>>

\* voice_agent.py line 160: transcribe_audio(audio_path)
Transcribe(r) ==
    /\ req[r].pc = "transcribe"
    /\ LET q   == [req[r] EXCEPT !.calls = Append(@, "transcribe")]
           out == IF q.tmp \in DOMAIN files
                  THEN TranscribeOutcome(files[q.tmp])
                  ELSE [raised |-> TRUE, value |-> None]
       IN  req' = [req EXCEPT ![r] =
                      IF out.raised
                      THEN AdapterExcept([q EXCEPT !.stage.transcribe = "raised"],
                                         "Error in transcription")
                      ELSE [q EXCEPT !.stage.transcribe = "returned",
                                     !.transcription_result = out.value,
                                     !.pc = "classify"]]
    /\ UNCHANGED <<environ, svc, agent, files, health>>

\* voice_agent.py line 161: classify_intent(transcript)
Classify(r, replies) ==
    /\ req[r].pc = "classify"
    /\ LET q == [req[r] EXCEPT !.calls = Append(@, "classify"),
                               !.cls_arg = Some(req[r].transcription_result.transcript)]
       IN  \E api \in ApiOutcomes(agent.openai_client) :
              IF api = "error"
              THEN req' = [req EXCEPT ![r] =
                              AdapterExcept([q EXCEPT !.stage.classify = "raised"],
                                            "Error in intent classification")]
              ELSE \E reply \in replies :
                      LET out == ClassifyIntent(reply)
                          q2  == [q EXCEPT !.cls_reply = Some(reply)]
                      IN  req' = [req EXCEPT ![r] =
                                     IF out.raised
                                     THEN AdapterExcept([q2 EXCEPT !.stage.classify = "raised"],
                                                        "Error in intent classification")
                                     ELSE [q2 EXCEPT !.stage.classify = "returned",
                                                     !.intent_result = out.value,
                                                     !.pc = "generate"]]
    /\ UNCHANGED <<environ, svc, agent, files, health>>

\* voice_agent.py lines 163-167: the arguments are evaluated (indexing the
\* intent result may raise), then generate_response is called
Generate(r, replies) ==
    /\ req[r].pc = "generate"
    /\ IF ~HasKey(req[r].intent_result, "intent")
       THEN req' = [req EXCEPT ![r] = OrchestratorExcept(@)]
       ELSE LET args == [transcript |-> req[r].transcription_result.transcript,
                         intent     |-> GetKey(req[r].intent_result, "intent"),
                         language   |-> req[r].transcription_result.language]
                q == [req[r] EXCEPT !.calls = Append(@, "generate"),
                                    !.gen_args = args]
            IN  \E api \in ApiOutcomes(agent.openai_client) :
                   IF api = "error"
                   THEN req' = [req EXCEPT ![r] =
                                   AdapterExcept([q EXCEPT !.stage.generate = "raised"],
                                                 "Error in response generation")]
                   ELSE \E reply \in replies :
                           req' = [req EXCEPT ![r] =
                                      [q EXCEPT !.stage.generate = "returned",
                                                !.gen_reply = Some(reply),
                                                !.response = Some(PostProcess(reply)),
                                                !.pc = "assemble"]]
    /\ UNCHANGED <<environ, svc, agent, files, health>>

\* voice_agent.py lines 169-175: the result dict is built and returned
Assemble(r) ==
    /\ req[r].pc = "assemble"
    /\ LET q == req[r]
       IN  req' = [req EXCEPT ![r] =
                      IF HasKey(q.intent_result, "confidence_score")
                      THEN [q EXCEPT !.result = ProcessingResult(q.transcription_result,
                                                                  q.intent_result,
                                                                  q.response.v),
                                     !.orch = "complete",
                                     !.pc = "unlink"]
                      ELSE OrchestratorExcept(q)]
    /\ UNCHANGED <<environ, svc, agent, files, health>>

\* api.py lines 50-52: os.unlink(temp_file.name); return result.  The unlink
\* removes the file, or raises (the file is gone, or the system refuses the
\* removal) and the handler's except clause returns instead
Unlink(r) ==
    /\ req[r].pc = "unlink"
    /\ IF req[r].tmp \in DOMAIN files
       THEN \E removed \in BOOLEAN :
               IF removed
               THEN /\ files' = RemoveFile(files, req[r].tmp)
                    /\ req' = [req EXCEPT ![r] =
                                  [@ EXCEPT !.pc = "done", !.body = req[r].result]]
               ELSE /\ files' = files
                    /\ req' = [req EXCEPT ![r] = HandlerExcept(@, "PermissionError")]
       ELSE /\ files' = files
            /\ req' = [req EXCEPT ![r] = HandlerExcept(@, "FileNotFoundError")]
    /\ UNCHANGED <<environ, svc, agent, health>>

---------------------------------------------------------------------------
(* Specifications *)

\* One request, every upload and every classification reply.
Next ==
    \/ LoadDotenv \/ CheckKey \/ LoadModel \/ MakeClient \/ HealthCheck
    \/ \E r \in SoloRequests :
          \/ Open(r, Uploads) \/ Read(r) \/ Write(r)
          \/ Transcribe(r) \/ Classify(r, ClassifierReplies)
          \/ Generate(r, LeanGeneratorReplies) \/ Assemble(r)
          \/ Unlink(r)

Spec == Init /\ [][Next]_vars

\* Concurrent uploads (the health endpoint, which touches nothing they use,
\* is left to the sequential specification).
NextConc ==
    \/ LoadDotenv \/ CheckKey \/ LoadModel \/ MakeClient
    \/ \E r \in AllRequests :
          \/ Open(r, LeanUploads) \/ Read(r) \/ Write(r)
          \/ Transcribe(r) \/ Classify(r, LeanClassifierReplies)
          \/ Generate(r, LeanGeneratorReplies) \/ Assemble(r)
          \/ Unlink(r)

SpecConc == Init /\ [][NextConc]_vars

\* One request, every reply of the response-generation call.
NextGen ==
    \/ LoadDotenv \/ CheckKey \/ LoadModel \/ MakeClient \/ HealthCheck
    \/ \E r \in SoloRequests :
          \/ Open(r, GenUploads) \/ Read(r) \/ Write(r)
          \/ Transcribe(r) \/ Classify(r, LeanClassifierReplies)
          \/ Generate(r, GeneratorReplies) \/ Assemble(r)
          \/ Unlink(r)

SpecGen == Init /\ [][NextGen]_vars

---------------------------------------------------------------------------
(* Properties *)

Stages == {"transcribe", "classify", "generate"}

StageOrder == <<"transcribe", "classify", "generate">>

IsPrefix(s, t) == Len(s) <= Len(t) /\ SubSeq(t, 1, Len(s)) = s

SomeStageRaised(q) == \E st \in Stages : q.stage[st] = "raised"

AllStagesReturned(q) == \A st \in Stages : q.stage[st] = "returned"

\* The handler holds a temporary file it has created and not yet unlinked.
HoldsFile(q) ==
    q.pc \in {"read", "write", "transcribe", "classify", "generate", "assemble", "unlink"}

\* C1: once the handler of a request has finished, on whichever path, the
\* temporary file created for that request no longer exists.
C1_TempFileGoneOnEveryExit ==
    \A r \in AllRequests : req[r].pc = "done" => req[r].tmp \notin DOMAIN files

\* C2: when a pipeline stage failed while a request was handled, the body the
\* handler returns is an error object {"error": message}.
C2_StageFailureYieldsErrorBody ==
    \A r \in AllRequests :
        (req[r].pc = "done" /\ SomeStageRaised(req[r]))
            => "error" \in DOMAIN req[r].body

\* The errors os.unlink may hand to the handler's except clause.
UnlinkErrors == {ErrorBody("PermissionError"), ErrorBody("FileNotFoundError")}

\* After a stage has raised: Failed, logged twice (adapter, orchestrator),
\* None returned to the handler, which carries on after the call: it is at
\* the unlink, or done with that None or with an error of the unlink itself.
C3_FailureSwallowedState ==
    \A r \in AllRequests :
        SomeStageRaised(req[r]) =>
            /\ PipelineState(req[r]) = "Failed"
            /\ req[r].result = None
            /\ Len(req[r].log) >= 2
            /\ req[r].log[Len(req[r].log)] = "Error in processing audio"
            /\ req[r].escaped = ""
            /\ \/ req[r].pc = "unlink"
               \/ req[r].pc = "done" /\ req[r].body \in {None} \cup UnlinkErrors

\* Failed is terminal: no step invokes a stage or logs again.
C3_FailedIsTerminal ==
    \A r \in AllRequests :
        PipelineState(req[r]) = "Failed" =>
            /\ PipelineState(req'[r]) = "Failed"
            /\ req'[r].calls = req[r].calls
            /\ req'[r].log = req[r].log

\* C3: when a stage raises inside the orchestrator, the orchestrator logs the
\* error, does not propagate the exception (the handler continues after the call
\* with the value None), and the pipeline is Failed for good: no further stage runs.
C3_OrchestratorSwallowsFailure ==
    [] C3_FailureSwallowedState /\ [][C3_FailedIsTerminal]_vars

C3_Witness ==
    \E r \in AllRequests :
        /\ req[r].stage["generate"] = "raised"
        /\ req[r].pc = "done"
        /\ req[r].body = None
        /\ req[r].log = <<"Error in response generation", "Error in processing audio">>

\* The calls made so far are a prefix of the stage order, and a stage is
\* entered only once its predecessor has returned.
C4_StagesInOrder ==
    \A r \in AllRequests :
        /\ IsPrefix(req[r].calls, StageOrder)
        /\ (req[r].pc = "classify" \/ req[r].stage["classify"] # "not-called")
              => req[r].stage["transcribe"] = "returned"
        /\ (req[r].pc = "generate" \/ req[r].stage["generate"] # "not-called")
              => req[r].stage["classify"] = "returned"
        /\ \A st \in Stages :
              (req[r].stage[st] # "not-called") <=> (\E i \in DOMAIN req[r].calls : req[r].calls[i] = st)

\* The moves of the linear state machine.
PipelineMoves ==
    { <<"NotStarted", "Received">>, <<"Received", "Transcribed">>,
      <<"Transcribed", "Classified">>, <<"Classified", "Responded">>,
      <<"Responded", "Complete">>,
      <<"Received", "Failed">>, <<"Transcribed", "Failed">>,
      <<"Classified", "Failed">>, <<"Responded", "Failed">> }

\* Every step keeps each request's pipeline state or makes one of those moves.
C4_PipelineStep ==
    \A r \in AllRequests :
        \/ PipelineState(req'[r]) = PipelineState(req[r])
        \/ <<PipelineState(req[r]), PipelineState(req'[r])>> \in PipelineMoves

\* C4: the adapters are invoked in the order transcribe, classify, generate,
\* each at most once and each only after the one before it has returned, and
\* the pipeline moves only along Received, Transcribed, Classified, Responded,
\* Complete, or from one of the first four to Failed.
C4_LinearPipeline ==
    [] C4_StagesInOrder /\ [][C4_PipelineStep]_vars

C4_Witness ==
    \E r \in AllRequests :
        /\ req[r].calls = StageOrder
        /\ PipelineState(req[r]) = "Complete"

\* C5: when all three stages have succeeded, process_audio returns the record
\* of five fields holding transcribe's transcript and language, classify's
\* intent and confidence_score, and the response generate returned when called
\* with that transcript, intent and language.
C5_SuccessReturnsFullRecord ==
    \A r \in AllRequests :
        (AllStagesReturned(req[r]) /\ req[r].pc \in {"unlink", "done"}) =>
            /\ req[r].result # None
            /\ DOMAIN req[r].result =
                  {"transcript", "language", "intent", "response", "confidence_score"}
            /\ req[r].result.transcript = WhisperText[req[r].upload.content]
            /\ req[r].result.transcript = req[r].transcription_result.transcript
            /\ req[r].result.language = req[r].transcription_result.language
            /\ req[r].result.intent = req[r].intent_result.members["intent"]
            /\ req[r].result.confidence_score =
                  req[r].intent_result.members["confidence_score"]
            /\ req[r].result.response = req[r].response.v
            /\ req[r].gen_args = [transcript |-> req[r].result.transcript,
                                  intent     |-> req[r].result.intent,
                                  language   |-> req[r].result.language]

\* The classification replies that are a JSON object holding both keys.
RepliesWithBothKeys == {ReplyFull, ReplyOffLabel}

\* C6: classify_intent raises whenever the model's reply is not valid JSON or
\* is an object without 'intent' or without 'confidence_score'; what it returns
\* always holds both keys.
C6_ClassifierRejectsIncompleteReply ==
    \A r \in AllRequests :
        /\ (req[r].cls_reply # None /\ req[r].cls_reply.v \notin RepliesWithBothKeys)
              => req[r].stage["classify"] = "raised"
        /\ req[r].stage["classify"] = "returned"
              => /\ HasKey(req[r].intent_result, "intent")
                 /\ HasKey(req[r].intent_result, "confidence_score")

\* C7: GET /health returns {"status": "healthy"} whatever the credential is
\* worth and whatever the requests are doing.
C7_HealthAlwaysHealthy ==
    health # None => health = [status |-> "healthy"]

C7_Witness ==
    /\ health = [status |-> "healthy"]
    /\ agent.openai_client = Some(RevokedKey)
    /\ \E r \in AllRequests : req[r].pc = "unlink" /\ SomeStageRaised(req[r])

\* C8: if OPENAI_API_KEY is unset or empty in the process environment the
\* constructor reads (os.environ once load_dotenv has run), construction raises
\* before the speech model or the client exists, and nothing is ever served:
\* no upload is handled and no health check answered.
C8_MissingKeyIsFatal ==
    (svc # "import" /\ (KeyVar \notin DOMAIN environ \/ environ[KeyVar] = "")) =>
        /\ svc \in {"construct", "crashed"}
        /\ agent = NoAgent
        /\ \A r \in AllRequests : req[r] = IdleRequest
        /\ health = None

C8_Witness ==
    /\ svc = "crashed"
    /\ KeyVar \in DOMAIN environ
    /\ environ[KeyVar] = ""

\* The reply without its leading and trailing whitespace.
Trimmed(s) ==
    LET solid == {i \in 1..Len(s) : s[i] \notin Whitespace}
    IN  IF solid = {} THEN <<>>
        ELSE SubSeq(s, CHOOSE i \in solid : \A j \in solid : i <= j,
                       CHOOSE i \in solid : \A j \in solid : j <= i)

\* "response:" in any letter case, position by position.
PrefixLetters ==
    << {"r","R"}, {"e","E"}, {"s","S"}, {"p","P"}, {"o","O"}, {"n","N"},
       {"s","S"}, {"e","E"}, {":"} >>

HasResponsePrefix(t) ==
    Len(t) >= Len(PrefixLetters) /\ \A i \in 1..Len(PrefixLetters) : t[i] \in PrefixLetters[i]

\* What the claim says generate_response returns for a reply.
ExpectedResponse(reply) ==
    LET t == Trimmed(reply)
    IN  IF HasResponsePrefix(t)
        THEN Trimmed(SubSeq(t, Len(PrefixLetters) + 1, Len(t)))
        ELSE t

\* C9: generate_response returns the reply trimmed and, when the trimmed text
\* begins with "response:" in any letter case, without that one prefix and the
\* whitespace after it; otherwise the trimmed reply unchanged.
C9_ResponsePostProcessing ==
    \A r \in AllRequests :
        req[r].stage["generate"] = "returned" =>
            req[r].response = Some(ExpectedResponse(req[r].gen_reply.v))

C9_Witness ==
    \E r \in AllRequests :
        /\ req[r].gen_reply =
              Some(<<"R","e","s","p","o","n","s","e",":"," ",
                     "Y","o","u","r"," ","a","p","p","o","i","n","t","m","e","n","t"," ",
                     "i","s"," ","c","o","n","f","i","r","m","e","d",".">>)
        /\ req[r].response =
              Some(<<"Y","o","u","r"," ","a","p","p","o","i","n","t","m","e","n","t"," ",
                     "i","s"," ","c","o","n","f","i","r","m","e","d",".">>)

\* In-flight requests hold distinct, existing files with their own bytes, and
\* what a request transcribed or returned is what its own upload holds.
C10_OwnFileState ==
    \A r \in AllRequests :
        /\ HoldsFile(req[r]) =>
              /\ req[r].tmp \in DOMAIN files
              /\ \A o \in AllRequests \ {r} : HoldsFile(req[o]) => req[o].tmp # req[r].tmp
        /\ req[r].pc \in {"transcribe", "classify", "generate", "assemble", "unlink"}
              => files[req[r].tmp] = req[r].upload.content
        /\ req[r].stage["transcribe"] = "returned"
              => req[r].transcription_result.transcript = WhisperText[req[r].upload.content]
        /\ req[r].stage["transcribe"] = "raised"
              => req[r].upload.content \notin DOMAIN WhisperText
        /\ PipelineState(req[r]) = "Complete"
              => req[r].result.transcript = WhisperText[req[r].upload.content]
        /\ (req[r].pc = "done" /\ PipelineState(req[r]) = "Complete")
              => req[r].body \in {req[r].result} \cup UnlinkErrors

\* A file changes only by a step of the request that owns it.
FileTouched(n) ==
    \/ (n \in DOMAIN files) # (n \in DOMAIN files')
    \/ n \in DOMAIN files /\ n \in DOMAIN files' /\ files[n] # files'[n]

\* Every change of the directory is made by the one request that owns the file.
C10_OwnFileStep ==
    \A n \in DOMAIN files \cup DOMAIN files' :
        FileTouched(n) =>
            \E r \in AllRequests :
                /\ req'[r] # req[r]
                /\ (req[r].tmp = n \/ req'[r].tmp = n)
                /\ \A o \in AllRequests \ {r} : HoldsFile(req[o]) => req[o].tmp # n

\* C10: concurrent requests never share a temporary file: each writes, reads
\* and deletes only its own, no cleanup removes a file another request still
\* needs, and what a request transcribes and returns comes from its own upload.
C10_RequestsIsolated ==
    [] C10_OwnFileState /\ [][C10_OwnFileStep]_vars

C10_Witness ==
    \E r \in AllRequests, o \in AllRequests :
        /\ r # o
        /\ req[r].pc = "done" /\ PipelineState(req[r]) = "Complete"
        /\ req[r].body = req[r].result
        /\ req[o].pc = "transcribe"
        /\ req[o].tmp \in DOMAIN files
        /\ req[o].upload.content # req[r].upload.content

=============================================================================
